---- MODULE Spec2Model ----
(***************************************************************************)
(* State-machine model of the HTTP service contexts of service.py:         *)
(* Network (host selection and pipelined batch fan-out), Host (prefix      *)
(* routing, OPTIONS and error responses), Partition and the per-request    *)
(* Controller.                                                             *)
(*                                                                         *)
(* Every call the code makes on a collaborator it does not define (the     *)
(* transport's output and input hooks, i_update, i_close, the dispatch of  *)
(* a Transfer) is appended to the event log `events` in program order, so  *)
(* ordering properties of a handler are state predicates over the log.     *)
(***************************************************************************)
EXTENDS Naturals, Sequences, FiniteSets, TLC

\* Bounds of the model: requests per connection, and calls a handler makes
\* on one Controller.
MaxRequests == 2
MaxOps == 3

\* Python's None and an optional value.
None == <<>>
Some(x) == <<x>>
IsNone(o) == o = <<>>
Val(o) == o[1]

(***************************************************************************)
(* Byte strings.  Text that the code only passes along is a TLA+ string;   *)
(* str(int) is computed digit by digit and b''.join by concatenation.      *)
(***************************************************************************)
Digit(d) == CASE d = 0 -> "0" [] d = 1 -> "1" [] d = 2 -> "2" [] d = 3 -> "3"
              [] d = 4 -> "4" [] d = 5 -> "5" [] d = 6 -> "6" [] d = 7 -> "7"
              [] d = 8 -> "8" [] d = 9 -> "9"

RECURSIVE IntToStr(_)
IntToStr(n) == IF n < 10 THEN Digit(n) ELSE IntToStr(n \div 10) \o Digit(n % 10)

\* Host.strcache: str(obj).encode('ascii') of obj = [int |-> n] or
\* [str |-> s]; str of a str is that str.
strcache(obj) == IF "int" \in DOMAIN obj THEN IntToStr(obj.int) ELSE obj.str

\* b''.join(list of byte strings)
RECURSIVE Concat(_)
Concat(parts) == IF parts = <<>> THEN "" ELSE Head(parts) \o Concat(Tail(parts))

\* list(a_set): each element once, in the iteration order of the set, which
\* the program does not choose.
RECURSIVE SetToSeq(_)
SetToSeq(S) == IF S = {} THEN <<>>
               ELSE LET x == CHOOSE y \in S : TRUE IN <<x>> \o SetToSeq(S \ {x})

\* sep.join(list): the items with the separator between neighbours.
RECURSIVE JoinTokens(_, _)
JoinTokens(sep, items) ==
    IF items = <<>> THEN <<>>
    ELSE IF Len(items) = 1 THEN <<items[1]>>
    ELSE <<items[1], sep>> \o JoinTokens(sep, Tail(items))

\* http.protocoldata.codes[code].replace('_', ' ')
codes(code) == CASE code = 404 -> <<"NOT", "_", "FOUND">>
                 [] code = 500 -> <<"INTERNAL", "_", "SERVER", "_", "ERROR">>
                 [] OTHER -> <<"UNKNOWN">>
descriptioncache(code) ==
    Concat([i \in 1..Len(codes(code)) |->
              IF codes(code)[i] = "_" THEN " " ELSE codes(code)[i]])

\* Host.h_defaults['h_allowed_methods']
h_allowed_methods == {"GET", "HEAD", "POST", "PUT", "PATCH", "DELETE", "OPTIONS"}

(***************************************************************************)
(* Controller.  A world w = [c |-> controller, ev |-> event log] is        *)
(* threaded through the methods; response_headers is one list object that  *)
(* the response tuple refers to, so the tuple given to the output hook     *)
(* shows every header appended before the call.  A header is a pair       *)
(* <<key, value>> whose value is a sequence of byte-string tokens.         *)
(***************************************************************************)
Log(w, e) == [w EXCEPT !.ev = Append(@, e)]

\* Controller.__init__
Controller(id, invocations, request, connect_output, connect_input, channel_id) ==
    [id |-> id,
     invocations |-> invocations,
     request |-> request,
     response_headers |-> <<>>,
     _response |-> None,
     _connect_output |-> connect_output,
     _connect_input |-> connect_input,
     _request_channel_id |-> channel_id]

\* The tuple (code, descr, self.response_headers, length) as the hook reads it.
ResponseTuple(c) ==
    IF IsNone(c._response) THEN None
    ELSE Some([code |-> Val(c._response)[1], descr |-> Val(c._response)[2],
               headers |-> c.response_headers, length |-> Val(c._response)[3]])

add_header(w, key, value) ==
    [w EXCEPT !.c.response_headers = Append(@, <<key, value>>)]

\* A _http_content_headers with the test on the length inverted.
_http_content_headers_inverted(w, cotype) ==
    LET l == Val(w.c._response)[3]
        w1 == add_header(w, "Content-Type", <<cotype>>)
    IN  IF ~IsNone(l) THEN add_header(w1, "Transfer-Encoding", <<"chunked">>)
        ELSE add_header(w1, "Content-Length", <<"0">>)

_http_content_headers(w, cotype) ==
    LET l == Val(w.c._response)[3]
        w1 == add_header(w, "Content-Type", <<cotype>>)
    IN  IF IsNone(l) THEN add_header(w1, "Transfer-Encoding", <<"chunked">>)
        ELSE add_header(w1, "Content-Length", <<IntToStr(Val(l))>>)

\* cotype is None or Some(content type); length is None or Some(n)
set_response(w, code, descr, length, cotype) ==
    LET w1 == Log([w EXCEPT !.c._response = Some(<<code, descr, length>>)],
                  [op |-> "set_response", ctl |-> w.c.id, code |-> code,
                   descr |-> descr, length |-> length, cotype |-> cotype])
    IN  IF ~IsNone(cotype) THEN _http_content_headers(w1, Val(cotype)) ELSE w1

OutputCall(c, channel) ==
    [op |-> "connect_output", ctl |-> c.id, hook |-> c._connect_output,
     response |-> ResponseTuple(c), channel |-> channel]

\* A connect that appends the Connection header after the hook was called.
connect_header_late(w, channel) ==
    IF w.c.request.final
    THEN LET w1 == Log(w, OutputCall(w.c, channel))
             w2 == add_header(w1, "Connection", <<"close">>)
         IN  Log(w2, [op |-> "i_close", ctl |-> w.c.id])
    ELSE Log(w, OutputCall(w.c, channel))

connect(w, channel) ==
    IF w.c.request.final
    THEN LET w1 == add_header(w, "Connection", <<"close">>)
             w2 == Log(w1, OutputCall(w1.c, channel))
         IN  Log(w2, [op |-> "i_close", ctl |-> w.c.id])
    ELSE Log(w, OutputCall(w.c, channel))

accept(w, channel) ==
    Log(w, [op |-> "connect_input", ctl |-> w.c.id, hook |-> w.c._connect_input,
            channel |-> channel])

http_redirect(w, location) ==
    LET w1 == add_header(w, "Location", <<location>>)
        w2 == set_response(w1, "302", "Found", None, None)
        w3 == connect(w2, None)
    IN  accept(w3, None)

\* flows.Relay(i_catenate, channel id) fed by a Transfer over the iterator
http_iterate_output(w, iterator) ==
    LET output_source == Some([relay |-> w.c._request_channel_id,
                               chunks |-> iterator])
        w1 == Log(w, [op |-> "dispatch", ctl |-> w.c.id,
                      chan |-> w.c._request_channel_id])
    IN  connect(w1, output_source)

http_write_output(w, cotype, data) ==
    http_iterate_output(set_response(w, "200", "OK", Some(Len(data)), Some(cotype)),
                        <<data>>)

\* str.encode('utf-8') of a string given as its code points (below 65536).
utf8(string) ==
    Concat([k \in 1..Len(string) |->
        LET cp == string[k]
        IN  IF cp < 128 THEN <<cp>>
            ELSE IF cp < 2048 THEN <<192 + (cp \div 64), 128 + (cp % 64)>>
            ELSE <<224 + (cp \div 4096), 128 + ((cp \div 64) % 64), 128 + (cp % 64)>>])

http_write_text(w, string) ==
    LET d == utf8(string)
    IN  http_iterate_output(
            set_response(w, "200", "OK", Some(Len(d)), Some("text/plain;charset=utf-8")),
            <<d>>)

\* route.meta() gives (times, size); the modification time is formatted by
\* the time library and only passed on.
http_send_file_head(w, route, cotype) ==
    LET w1 == add_header(w, "Last-Modified", <<route.lm>>)
        w2 == set_response(w1, "200", "OK", Some(route.size), cotype)
    IN  connect(w2, None)

\* An exception leaves a Controller method.
Raise(w, method, exc) ==
    Log(w, [op |-> "raise", ctl |-> w.c.id, method |-> method, exc |-> exc])

\* An http_continue that publishes an interim response and returns.
http_continue_silent(w, headers) ==
    connect(set_response(Log(w, [op |-> "http_continue", ctl |-> w.c.id]),
                         "100", "Continue", None, None), None)

\* Controller.http_continue: raises whatever the state of the Controller.
http_continue(w, headers) ==
    Raise(Log(w, [op |-> "http_continue", ctl |-> w.c.id]),
          "http_continue", "Exception")

\* Controller.http_read_input_into_buffer.  The reader, its Transaction, the
\* storage and the Receiver are constructed without any call on the
\* Controller's hooks; self.xact_dispatch is then looked up on the
\* Controller, a plain object that defines no such attribute, so the call
\* ends there: io_flow (which would register the completion callback) and
\* f_transfer (which would call accept) are not reached.
http_read_input_into_buffer(w, callback) ==
    Raise(Log(w, [op |-> "http_read_input_into_buffer", ctl |-> w.c.id,
                  callback |-> callback]),
          "http_read_input_into_buffer", "AttributeError")

(***************************************************************************)
(* State.                                                                  *)
(***************************************************************************)
VARIABLES
    http_hosts,         \* Network.http_hosts: hostname -> Host
    http_default_host,  \* Network.http_default_host: None or Some(hostname)
    actuated,           \* Network.actuate has run
    h_names,            \* Host.h_names
    h_partitions,       \* Host.h_partitions: mount path -> Partition
    h_root,             \* Host.h_root: the keys the prefix index was built from
    invp,               \* the connection's Invocations protocol
    ctls,               \* every Controller constructed, in construction order
    events,             \* calls on the collaborators, in program order
    fault,              \* the exception that left a request-time handler, if any
    ops,                \* number of handler calls made on the Controller
    produced,           \* ids of the Controllers whose body Transfer has
                        \* delivered a chunk, in the order of delivery
    wire,               \* what the multiplexer has emitted
    h_canonical,        \* Host.h_canonical: None or Some(first name)
    xacts               \* the kernel's view of the contexts: their state,
                        \* their subtransactions, exits not yet delivered

vars == <<http_hosts, http_default_host, actuated, h_names, h_partitions, h_root,
          invp, ctls, events, fault, ops, produced, wire, h_canonical, xacts>>

confVars == <<http_hosts, http_default_host, actuated, h_names, h_partitions, h_root,
              h_canonical, xacts>>

(***************************************************************************)
(* The deployment the requests run against.                                *)
(***************************************************************************)
Hosts == {"H1", "H2"}
HostNames == [H1 |-> {"a"}, H2 |-> {"b"}]

\* A path is the sequence of its characters.
Root == <<"/">>
PX == <<"/", "x">>
PXY == <<"/", "x", "/", "y">>

\* Host._h_parts: mount path -> Partition class, per host.  P4 and P5 are
\* further Partition instances, created with a path that P2 and P1 already
\* have; a dict has one entry per path, so they are never in _h_parts.
Partitions == {"P1", "P2", "P3"}
Instances == Partitions \cup {"P4", "P5"}
part_path == [P1 |-> Root, P2 |-> PX, P3 |-> PXY, P4 |-> PX, P5 |-> Root]
part_host == [P1 |-> "H1", P2 |-> "H2", P3 |-> "H2", P4 |-> "H2", P5 |-> "H1"]
_h_parts(h) == {p \in Partitions : part_host[p] = h}

\* A unit of work dispatched under a Partition.
Jobs == {"J1"}
job_part == [J1 |-> "P2"]

\* The contexts the kernel runs: the Network, the Hosts, the Partitions and
\* their units of work.
Contexts == {"N"} \cup Hosts \cup Instances \cup Jobs
Parent(c) == IF c \in Hosts THEN "N"
             ELSE IF c \in Instances THEN part_host[c]
             ELSE job_part[c]

\* No context has been dispatched.
NoXacts ==
    [pexe |-> [c \in Contexts |-> "created"],
     subs |-> [c \in Contexts |-> {}],
     exits |-> {},
     started |-> [c \in Contexts |-> 0],
     finished |-> [c \in Contexts |-> 0],
     requested |-> [c \in Contexts |-> 0]]

\* controller.xact_dispatch(core.Transaction.create(child))
xact_dispatch(x, parent, child) ==
    [x EXCEPT !.subs[parent] = @ \cup {child}, !.pexe[child] = "functioning"]

(***************************************************************************)
(* Host                                                                    *)
(***************************************************************************)
IsPrefix(p, s) == Len(p) <= Len(s) /\ SubSeq(s, 1, Len(p)) = p

\* match.SubsequenceScan(keys).get(path, None): the longest key that is a
\* prefix of the path.
SubsequenceScan_get(keys, path) ==
    LET hits == {k \in keys : IsPrefix(k, path)}
    IN  IF hits = {} THEN None
        ELSE Some(CHOOSE k \in hits : \A j \in hits : Len(j) <= Len(k))

\* Host.h_configure: the index maps each mount path to the partition
\* assigned last under it.
h_configure(partitions) ==
    [path \in {part_path[partitions[i]] : i \in 1..Len(partitions)} |->
        LET last == CHOOSE i \in 1..Len(partitions) :
                       /\ part_path[partitions[i]] = path
                       /\ \A j \in 1..Len(partitions) :
                            part_path[partitions[j]] = path => j <= i
        IN  partitions[last]]

\* An h_options_request that leaves the request body unaccepted.
h_options_request_no_accept(h, w) ==
    LET w0 == Log(w, [op |-> "h_options_request", host |-> h, ctl |-> w.c.id])
        w1 == add_header(w0, "Allow", JoinTokens(",", SetToSeq(h_allowed_methods)))
        w2 == set_response(w1, "204", "NO CONTENT", None, None)
    IN  connect(w2, None)

h_options_request(h, w) ==
    LET w0 == Log(w, [op |-> "h_options_request", host |-> h, ctl |-> w.c.id])
        w1 == add_header(w0, "Allow", JoinTokens(",", SetToSeq(h_allowed_methods)))
        w2 == set_response(w1, "204", "NO CONTENT", None, None)
        w3 == accept(w2, None)
    IN  connect(w3, None)

ErrorDocument(code_bytes, description_bytes) ==
    Concat(<<"<?xml version=\"1.0\" encoding=\"ascii\"?>",
             "<?xml-stylesheet type=\"text/xsl\" href=\"",
             "/sys/error.xsl",
             "\"?>",
             "<error xmlns=\"http://if.fault.io/xml/failure\" domain=\"/internet/http\">",
             "<frame code=\"" \o code_bytes \o "\" message=\"" \o description_bytes \o "\"/>",
             "</error>">>)

\* description is None or Some(text)
h_error(h, w, code, description) ==
    LET code_bytes == strcache([int |-> code])
        descr == IF IsNone(description) THEN descriptioncache(code)
                 ELSE Val(description)
        description_bytes == strcache([str |-> descr])
        errmsg == ErrorDocument(code_bytes, description_bytes)
        w1 == set_response(w, code_bytes, description_bytes, Some(Len(errmsg)),
                           Some("text/xml"))
    IN  http_iterate_output(w1, <<errmsg>>)

\* An h_fallback that emits the error before it accepts the request body.
h_fallback_error_first(h, w) ==
    LET w0 == Log(w, [op |-> "h_fallback", host |-> h, ctl |-> w.c.id])
    IN  accept(h_error(h, w0, 404, None), None)

h_fallback(h, w) ==
    LET w0 == Log(w, [op |-> "h_fallback", host |-> h, ctl |-> w.c.id])
    IN  h_error(h, accept(w0, None), 404, None)

\* A part_select that leaves the description to the status code's table.
part_select_default_description(p, w) ==
    LET w0 == Log(w, [op |-> "part_select", part |-> p, ctl |-> w.c.id])
    IN  h_error(part_host[p], accept(w0, None), 500, None)

\* Partition.part_select of the base class
part_select(p, w) ==
    LET w0 == Log(w, [op |-> "part_select", part |-> p, ctl |-> w.c.id])
    IN  h_error(part_host[p], accept(w0, None), 500, Some("MISCONFIGURED"))

\* An h_route that settles for the shortest mounted prefix.
h_route_shortest(h, w) ==
    LET path == w.c.request.pathstring
        hits == {k \in h_root[h] : IsPrefix(k, path)}
        w0 == Log(w, [op |-> "h_route", host |-> h, ctl |-> w.c.id])
    IN  IF hits = {}
        THEN IF path = <<"*">> /\ w.c.request.method = "OPTIONS"
             THEN h_options_request(h, w0)
             ELSE h_fallback(h, w0)
        ELSE part_select(h_partitions[h][CHOOSE k \in hits :
                                            \A j \in hits : Len(k) <= Len(j)], w0)

h_route(h, w) ==
    LET path == w.c.request.pathstring
        initial == SubsequenceScan_get(h_root[h], path)
        w0 == Log(w, [op |-> "h_route", host |-> h, ctl |-> w.c.id])
    IN  IF IsNone(initial)
        THEN IF path = <<"*">> /\ w.c.request.method = "OPTIONS"
             THEN h_options_request(h, w0)
             ELSE h_fallback(h, w0)
        ELSE part_select(h_partitions[h][Val(initial)], w0)

(***************************************************************************)
(* Network and the batch handlers.  A batch handler works on               *)
(* st = [ev, ctls, handler, fault]: the event log, the Controllers built   *)
(* so far, the connection's batch handler and the exception raised.        *)
(***************************************************************************)
\* Network.net_dispatch: dict update of http_hosts with the host's names
net_dispatch(hosts, host) ==
    [n \in (DOMAIN hosts) \cup h_names[host] |->
        IF n \in h_names[host] THEN host ELSE hosts[n]]

\* dict.get(name): None for a missing key (None itself is never a key)
DictGet(d, name) ==
    IF ~IsNone(name) /\ Val(name) \in DOMAIN d THEN Some(d[Val(name)]) ELSE None

\* self.http_hosts.get(name) or self.http_hosts[self.http_default_host]
\* [raised |-> TRUE] stands for the KeyError of the subscript.
net_select_host(name) ==
    LET got == DictGet(http_hosts, name)
    IN  IF ~IsNone(got) THEN [raised |-> FALSE, host |-> Val(got)]
        ELSE LET dflt == DictGet(http_hosts, http_default_host)
             IN  IF IsNone(dflt) THEN [raised |-> TRUE]
                 ELSE [raised |-> FALSE, host |-> Val(dflt)]

\* http.Structures(headers + [(:Method, method), (:URI, uri)])
Structures(parameters) ==
    [method |-> parameters.method,
     pathstring |-> parameters.uri,
     host |-> parameters.headers.host,
     final |-> parameters.headers.close]

\* invp.inv_accept(): the output hooks and the input controls of the batch,
\* as two parallel sequences; channel ids continue the connection's count.
inv_accept(reqs, next) ==
    << [i \in 1..Len(reqs) |-> <<"out", next + i - 1>>],
       [i \in 1..Len(reqs) |-> <<next + i - 1, reqs[i], <<"in", next + i - 1>> >>] >>

Zip(a, b) ==
    [i \in 1..(IF Len(a) < Len(b) THEN Len(a) ELSE Len(b)) |-> <<a[i], b[i]>>]

\* One pass of the loop body up to the Controller construction.
Construct(st, pair) ==
    LET connect_out == pair[1]
        inputctl == pair[2]
        channel_id == inputctl[1]
        parameters == inputctl[2]
        connect_input == inputctl[3]
        struct == Structures(parameters)
        ctl == Controller(Len(st.ctls) + 1, "invp", struct, connect_out,
                          connect_input, channel_id)
    IN  [c |-> ctl,
         ev |-> Append(st.ev, [op |-> "Controller", ctl |-> ctl.id,
                               request |-> struct, out |-> connect_out,
                               in |-> connect_input, chan |-> channel_id])]

\* h.h_route(ctl), the Controller kept for inspection
Route(h, st, w) ==
    LET w1 == h_route(h, w)
    IN  [st EXCEPT !.ev = w1.ev, !.ctls = Append(st.ctls, w1.c)]

RECURSIVE RouteEach(_, _, _)
RouteEach(h, st, pairs) ==
    IF pairs = <<>> THEN st
    ELSE RouteEach(h, Route(h, st, Construct(st, Head(pairs))), Tail(pairs))

\* The transport's call of a batch handler, with the batch it delivers.
Enter(st, handler, pairs) ==
    [st EXCEPT !.ev = Append(@, [op |-> handler, batch |-> pairs])]

h_accept(h, st, pairs) == RouteEach(h, Enter(st, "h_accept", pairs), pairs)

\* A net_accept that selects the host of every request from its own header.
RECURSIVE SelectEach(_, _)
SelectEach(st, pairs) ==
    IF pairs = <<>> THEN st
    ELSE LET sel == net_select_host(Structures(Head(pairs)[2][2]).host)
             st1 == [st EXCEPT !.ev = Append(@, [op |-> "net_select_host",
                         name |-> Structures(Head(pairs)[2][2]).host])]
         IN  IF sel.raised THEN [st1 EXCEPT !.fault = Some("KeyError")]
             ELSE SelectEach(Route(sel.host, st1, Construct(st1, Head(pairs))),
                             Tail(pairs))

net_accept_select_each(st, pairs) ==
    LET st1 == SelectEach(Enter(st, "net_accept", pairs), pairs)
    IN  IF IsNone(st1.fault)
        THEN [st1 EXCEPT !.handler =
                 <<"h_accept", net_select_host(Structures(pairs[1][2][2]).host).host>>]
        ELSE st1

\* A net_accept that leaves the connection's batch handler as it is.
net_accept_no_update(st, pairs) ==
    LET struct == Structures(Head(pairs)[2][2])
        sel == net_select_host(struct.host)
        st1 == [Enter(st, "net_accept", pairs) EXCEPT
                   !.ev = Append(@, [op |-> "net_select_host",
                                     name |-> struct.host])]
    IN  IF sel.raised THEN [st1 EXCEPT !.fault = Some("KeyError")]
        ELSE RouteEach(sel.host, st1, pairs)

\* A net_accept that routes the first request after the rest of its batch.
net_accept_first_last(st, pairs) ==
    LET first == Head(pairs)
        remainder == Tail(pairs)
        struct == Structures(first[2][2])
        sel == net_select_host(struct.host)
        st1 == [Enter(st, "net_accept", pairs) EXCEPT
                   !.ev = Append(@, [op |-> "net_select_host",
                                     name |-> struct.host])]
    IN  IF sel.raised THEN [st1 EXCEPT !.fault = Some("KeyError")]
        ELSE LET h == sel.host
                 st2 == RouteEach(h, [st1 EXCEPT !.handler = <<"h_accept", h>>],
                                  remainder)
                 w == Construct(st2, first)
             IN  Route(h, st2, Log(w, [op |-> "i_update", host |-> h]))

net_accept(st, pairs) ==
    LET first == Head(pairs)
        remainder == Tail(pairs)
        struct == Structures(first[2][2])
        sel == net_select_host(struct.host)
        st1 == [Enter(st, "net_accept", pairs) EXCEPT
                   !.ev = Append(@, [op |-> "net_select_host",
                                     name |-> struct.host])]
    IN  IF sel.raised THEN [st1 EXCEPT !.fault = Some("KeyError")]
        ELSE LET h == sel.host
                 w == Construct(st1, first)
                 w1 == Log(w, [op |-> "i_update", host |-> h])
                 st2 == Route(h, [st1 EXCEPT !.handler = <<"h_accept", h>>], w1)
             IN  RouteEach(h, st2, remainder)

(***************************************************************************)
(* Inputs: the request batches a connection delivers.                      *)
(***************************************************************************)
HostHeaders == {None, Some("a"), Some("b"), Some("z")}
Paths == {PXY, <<"/", "n">>, <<"*">>}
Methods == {"GET", "OPTIONS"}

Parameters(final) ==
    [method : Methods, uri : Paths, headers : [host : HostHeaders, close : {final}]]

\* Batches of n requests; only the last request of a batch may be the final
\* one of its connection.
Batches(n) ==
    {Append(b, last) : b \in [1..(n - 1) -> Parameters(FALSE)],
                       last \in Parameters(FALSE) \cup Parameters(TRUE)}

IsClose(e) == e.op = "i_close"
Closed == \E k \in 1..Len(events) : IsClose(events[k])

(***************************************************************************)
(* Actions.                                                                *)
(***************************************************************************)
Init ==
    /\ http_hosts = <<>>
    /\ http_default_host \in {None, Some("a"), Some("b")}
    /\ actuated = FALSE
    /\ h_names = HostNames
    /\ h_partitions = [h \in Hosts |-> <<>>]
    /\ h_root = [h \in Hosts |-> {}]
    /\ invp = [handler |-> <<"net_accept">>, next |-> 1]
    /\ ctls = <<>>
    /\ events = <<>>
    /\ fault = None
    /\ ops = 0
    /\ produced = <<>>
    /\ wire = <<>>
    /\ h_canonical = [H1 |-> Some("a"), H2 |-> Some("b")]
    /\ xacts = [NoXacts EXCEPT !.pexe["N"] = "functioning"]

\* Host.h_configure was called with the partitions and returned.
ConfigureCall(h, partitions) ==
    [op |-> "h_configure", host |-> h, partitions |-> partitions, raised |-> FALSE]

RECURSIVE DispatchAll(_, _)
DispatchAll(hosts, hostsrc) ==
    IF hostsrc = <<>> THEN hosts
    ELSE DispatchAll(net_dispatch(hosts, Head(hostsrc)), Tail(hostsrc))

\* The kernel's tree after Network.actuate: net_dispatch has dispatched every
\* Host, and each Host's h_configure has dispatched its Partitions.
RECURSIVE DispatchEach(_, _, _)
DispatchEach(x, parent, children) ==
    IF children = <<>> THEN x
    ELSE DispatchEach(xact_dispatch(x, parent, Head(children)), parent, Tail(children))

Actuated(x) ==
    LET x1 == DispatchEach(x, "N", SetToSeq(Hosts))
        x2 == DispatchEach(x1, "H1", SetToSeq(_h_parts("H1")))
    IN  DispatchEach(x2, "H2", SetToSeq(_h_parts("H2")))

\* Network.actuate: every host of _hostsrc is dispatched, and a dispatched
\* Host configures its partitions (Host.actuate).
Network_actuate ==
    /\ ~actuated
    /\ actuated' = TRUE
    /\ http_hosts' = DispatchAll(http_hosts, SetToSeq(Hosts))
    /\ h_partitions' = [h \in Hosts |-> h_configure(SetToSeq(_h_parts(h)))]
    /\ h_root' = [h \in Hosts |-> DOMAIN h_partitions'[h]]
    /\ xacts' = Actuated(xacts)
    /\ events' = events \o [k \in 1..Cardinality(Hosts) |->
                              ConfigureCall(SetToSeq(Hosts)[k],
                                            SetToSeq(_h_parts(SetToSeq(Hosts)[k])))]
    /\ UNCHANGED <<http_default_host, h_names, h_canonical, invp, ctls,
                   fault, ops, produced, wire>>

Deliverable(n) ==
    /\ actuated
    /\ IsNone(fault)
    /\ ~Closed
    /\ n >= 1
    /\ Len(ctls) + n <= MaxRequests

Apply(st, n) ==
    /\ events' = st.ev
    /\ ctls' = st.ctls
    /\ fault' = st.fault
    /\ invp' = [handler |-> st.handler, next |-> invp.next + n]
    /\ UNCHANGED <<confVars, ops, produced, wire>>

Current == [ev |-> events, ctls |-> ctls, handler |-> invp.handler, fault |-> fault]

\* The first batch of the connection goes to Network.net_accept.
NetAccept(reqs) ==
    /\ Deliverable(Len(reqs))
    /\ invp.handler = <<"net_accept">>
    /\ LET acc == inv_accept(reqs, invp.next)
       IN  Apply(net_accept(Current, Zip(acc[1], acc[2])), Len(reqs))

\* After i_update the batches go to the selected Host's h_accept.
HostAccept(reqs) ==
    /\ Deliverable(Len(reqs))
    /\ invp.handler[1] = "h_accept"
    /\ LET acc == inv_accept(reqs, invp.next)
       IN  Apply(h_accept(invp.handler[2], Current, Zip(acc[1], acc[2])), Len(reqs))

Next ==
    \/ Network_actuate
    \/ \E n \in 1..(MaxRequests - Len(ctls)) : \E reqs \in Batches(n) : NetAccept(reqs)
    \/ \E n \in 1..(MaxRequests - Len(ctls)) : \E reqs \in Batches(n) : HostAccept(reqs)

Spec == Init /\ [][Next]_vars

(***************************************************************************)
(* The transport's output side.  Each response body handed to the output   *)
(* hook as a Relay is fed by its own Transfer, which delivers its chunks   *)
(* whenever it is scheduled.  The multiplexer emits the registered         *)
(* responses one at a time in the order of their registration: the head,   *)
(* the chunks delivered so far, and the end once the body is complete.     *)
(***************************************************************************)
IsOutput(e) == e.op = "connect_output"
Registered == SelectSeq(events, IsOutput)

Delivered(id) == Cardinality({i \in 1..Len(produced) : produced[i] = id})
BodyLen(r) == IF IsNone(r.channel) THEN 0 ELSE Len(Val(r.channel).chunks)
Emitted(chan, part) ==
    Cardinality({i \in 1..Len(wire) : wire[i] = [chan |-> chan, part |-> part]})
Ended == Cardinality({i \in 1..Len(wire) : wire[i].part = "end"})

\* io.Transfer of a response body: one more chunk reaches the Relay.
Produce(k) ==
    /\ k \in 1..Len(Registered)
    /\ Delivered(Registered[k].ctl) < BodyLen(Registered[k])
    /\ produced' = Append(produced, Registered[k].ctl)
    /\ UNCHANGED <<confVars, invp, ctls, events, fault, ops, wire>>

MuxEmit ==
    /\ Ended < Len(Registered)
    /\ LET r == Registered[Ended + 1]
           chan == r.hook[2]
           part == IF Emitted(chan, "head") = 0 THEN "head"
                   ELSE IF Emitted(chan, "chunk") < Delivered(r.ctl) THEN "chunk"
                   ELSE IF Delivered(r.ctl) = BodyLen(r) THEN "end"
                   ELSE "wait"
       IN  /\ part # "wait"
           /\ wire' = Append(wire, [chan |-> chan, part |-> part])
    /\ UNCHANGED <<confVars, invp, ctls, events, fault, ops, produced>>

\* Requests of the wire specification: one virtual host, every kind of
\* response the Host produces (204 without a body, 404 and 500 with one).
WireParameters(final) ==
    [method : {"OPTIONS"}, uri : Paths, headers : [host : {Some("b")}, close : {final}]]
WireBatches(n) ==
    {Append(b, last) : b \in [1..(n - 1) -> WireParameters(FALSE)],
                       last \in WireParameters(FALSE) \cup WireParameters(TRUE)}

WireInit == Init /\ http_default_host = None

WireNext ==
    \/ Network_actuate
    \/ \E n \in 1..(MaxRequests - Len(ctls)) : \E reqs \in WireBatches(n) : NetAccept(reqs)
    \/ \E n \in 1..(MaxRequests - Len(ctls)) : \E reqs \in WireBatches(n) : HostAccept(reqs)
    \/ \E k \in 1..MaxRequests : Produce(k)
    \/ MuxEmit

SpecWire == WireInit /\ [][WireNext]_vars

(***************************************************************************)
(* A handler at work: a Partition that was handed a Controller calls its   *)
(* methods, any of them, in any order.                                     *)
(***************************************************************************)
CtlRequests ==
    [method : {"GET"}, pathstring : {PXY}, host : {Some("a")}, final : BOOLEAN]

ResponseArgs ==
    [code : {"200", "404"}, length : {None, Some(0), Some(5)},
     cotype : {None, Some("text/plain")}]

Descr(code) == IF code = "200" THEN "OK" ELSE "NOT FOUND"

\* The state after Controller.__init__ for a request of the connection.
CtlInit ==
    /\ http_hosts = <<>>
    /\ http_default_host = None
    /\ actuated = FALSE
    /\ h_names = HostNames
    /\ h_partitions = [h \in Hosts |-> <<>>]
    /\ h_root = [h \in Hosts |-> {}]
    /\ invp = [handler |-> <<"net_accept">>, next |-> 2]
    /\ \E request \in CtlRequests :
         LET w == Construct([ev |-> <<>>, ctls |-> <<>>],
                            <<<<"out", 1>>, <<1, [method |-> request.method,
                                                 uri |-> request.pathstring,
                                                 headers |-> [host |-> request.host,
                                                              close |-> request.final]],
                                             <<"in", 1>> >> >>)
         IN  /\ ctls = <<w.c>>
             /\ events = w.ev
    /\ fault = None
    /\ ops = 0
    /\ produced = <<>>
    /\ wire = <<>>
    /\ h_canonical = [H1 |-> Some("a"), H2 |-> Some("b")]
    /\ xacts = Actuated([NoXacts EXCEPT !.pexe["N"] = "functioning"])

World == [c |-> ctls[1], ev |-> events]

\* The handler's call has returned w.
Returned(w) ==
    /\ ops < MaxOps
    /\ ops' = ops + 1
    /\ ctls' = <<w.c>>
    /\ events' = w.ev
    /\ UNCHANGED <<confVars, invp, fault, produced, wire>>

H_add_header == Returned(add_header(World, "X-Served-By", <<"app">>))

H_set_response ==
    \E a \in ResponseArgs :
        Returned(set_response(World, a.code, Descr(a.code), a.length, a.cotype))

H_accept == Returned(accept(World, None))

H_connect == Returned(connect(World, None))

H_http_redirect == Returned(http_redirect(World, "/moved"))

H_http_write_output ==
    \E data \in {"", "abc"} :
        Returned(http_write_output(World, "text/plain", data))

\* "hé": two code points, three bytes
H_http_write_text == Returned(http_write_text(World, <<104, 233>>))

H_http_send_file_head ==
    \E cotype \in {None, Some("text/plain")} :
        Returned(http_send_file_head(World, [size |-> 5, lm |-> "mtime"], cotype))

H_http_continue == Returned(http_continue(World, <<>>))

H_http_read_input_into_buffer ==
    Returned(http_read_input_into_buffer(World, "callback"))

CtlNext ==
    \/ H_add_header
    \/ H_set_response
    \/ H_accept
    \/ H_connect
    \/ H_http_redirect
    \/ H_http_write_output
    \/ H_http_write_text
    \/ H_http_send_file_head
    \/ H_http_continue
    \/ H_http_read_input_into_buffer

SpecCtl == CtlInit /\ [][CtlNext]_vars

(***************************************************************************)
(* Configuration at work: Hosts are dispatched into the Network one by     *)
(* one, and the names a Host answers to are replaced at any time.          *)
(***************************************************************************)
MaxNames == 2
Names == {"a", "b", "z"}
NameLists == UNION {[1..n -> Names] : n \in 0..MaxNames}

\* Host.h_update_names(*names)
h_update_names(names) ==
    [h_names |-> {names[k] : k \in 1..Len(names)},
     h_canonical |-> IF names # <<>> THEN Some(names[1]) ELSE None]

H_update_names(h, names) ==
    /\ h_names' = [h_names EXCEPT ![h] = h_update_names(names).h_names]
    /\ h_canonical' = [h_canonical EXCEPT ![h] = h_update_names(names).h_canonical]
    /\ UNCHANGED <<http_hosts, http_default_host, actuated, h_partitions, h_root,
                   xacts, invp, ctls, events, fault, ops, produced, wire>>

\* Network.net_dispatch(host) for a Host that is not yet running; the
\* dispatched Host is actuated and configures its partitions.
Net_dispatch(h) ==
    /\ xacts.pexe[h] = "created"
    /\ http_hosts' = net_dispatch(http_hosts, h)
    /\ h_partitions' = [h_partitions EXCEPT ![h] = h_configure(SetToSeq(_h_parts(h)))]
    /\ h_root' = [h_root EXCEPT ![h] = DOMAIN h_partitions'[h]]
    /\ xacts' = DispatchEach(xact_dispatch(xacts, "N", h), h, SetToSeq(_h_parts(h)))
    /\ events' = Append(events, ConfigureCall(h, SetToSeq(_h_parts(h))))
    /\ UNCHANGED <<http_default_host, actuated, h_names, h_canonical, invp, ctls,
                   fault, ops, produced, wire>>

\* Every list of distinct Partition instances created for the Host.
RECURSIVE Arrangements(_)
Arrangements(S) ==
    {<<>>} \cup UNION {{<<p>> \o rest : rest \in Arrangements(S \ {p})} : p \in S}

\* The Hosts are running and not yet configured.
ConfInit ==
    /\ http_hosts = [name \in {"a", "b"} |-> IF name = "a" THEN "H1" ELSE "H2"]
    /\ http_default_host = None
    /\ actuated = FALSE
    /\ h_names = HostNames
    /\ h_partitions = [h \in Hosts |-> <<>>]
    /\ h_root = [h \in Hosts |-> {}]
    /\ invp = [handler |-> <<"net_accept">>, next |-> 1]
    /\ ctls = <<>>
    /\ events = <<>>
    /\ fault = None
    /\ ops = 0
    /\ produced = <<>>
    /\ wire = <<>>
    /\ h_canonical = [H1 |-> Some("a"), H2 |-> Some("b")]
    /\ xacts = DispatchEach([NoXacts EXCEPT !.pexe["N"] = "functioning"], "N",
                            SetToSeq(Hosts))

\* Host.h_configure(partitions), called once on a Host: the index is built
\* from the mount paths and every given Partition is dispatched.
H_configure(h, partitions) ==
    /\ ~\E k \in 1..Len(events) : events[k].op = "h_configure" /\ events[k].host = h
    /\ h_partitions' = [h_partitions EXCEPT ![h] = h_configure(partitions)]
    /\ h_root' = [h_root EXCEPT ![h] = DOMAIN h_partitions'[h]]
    /\ xacts' = DispatchEach(xacts, h, partitions)
    /\ events' = Append(events, ConfigureCall(h, partitions))
    /\ UNCHANGED <<http_hosts, http_default_host, actuated, h_names, h_canonical,
                   invp, ctls, fault, ops, produced, wire>>

ConfNext ==
    \E h \in Hosts :
        \E partitions \in Arrangements({p \in Instances : part_host[p] = h}) :
            H_configure(h, partitions)

SpecConf == ConfInit /\ [][ConfNext]_vars

NamesInit == Init /\ http_default_host = None

NamesNext ==
    \/ \E h \in Hosts : Net_dispatch(h)
    \/ \E h \in Hosts : \E names \in NameLists : H_update_names(h, names)

SpecNames == NamesInit /\ [][NamesNext]_vars

(***************************************************************************)
(* Termination.  The kernel keeps, for every context, its state and the    *)
(* set of its subtransactions.  A context that finishes termination exits; *)
(* the kernel delivers the exit to the parent later, removes the child     *)
(* from the parent's subtransactions, and calls the parent's xact_void     *)
(* when none is left.                                                      *)
(***************************************************************************)
Containers == {"N"} \cup Hosts \cup Instances

start_termination(x, c) ==
    [x EXCEPT !.pexe[c] = "terminating", !.started[c] = @ + 1]

finish_termination(x, c) ==
    [x EXCEPT !.pexe[c] = "terminated", !.finished[c] = @ + 1,
              !.exits = IF c = "N" THEN @ ELSE @ \cup {c}]

xact_exit_if_empty(x, c) ==
    IF x.subs[c] = {} THEN finish_termination(x, c) ELSE x

\* x.terminate() of a unit of work: it stops when it gets to it.
Job_terminate(x, j) ==
    IF x.pexe[j] = "functioning" THEN start_termination(x, j) ELSE x

\* for x in self.controller.subtransactions: x.terminate()
RECURSIVE JobsTerminate(_, _)
JobsTerminate(x, S) ==
    IF S = {} THEN x
    ELSE LET j == CHOOSE k \in S : TRUE
         IN  JobsTerminate(Job_terminate([x EXCEPT !.requested[j] = @ + 1], j),
                           S \ {j})

\* Partition.terminate
Partition_terminate(x, p) ==
    IF x.pexe[p] # "functioning" THEN x
    ELSE xact_exit_if_empty(JobsTerminate(start_termination(x, p), x.subs[p]), p)

RECURSIVE PartitionsTerminate(_, _)
PartitionsTerminate(x, S) ==
    IF S = {} THEN x
    ELSE LET p == CHOOSE k \in S : TRUE
         IN  PartitionsTerminate(
                 Partition_terminate([x EXCEPT !.requested[p] = @ + 1], p), S \ {p})

\* Host.terminate: no test of self.functioning.
Host_terminate(x, h) ==
    xact_exit_if_empty(PartitionsTerminate(start_termination(x, h), x.subs[h]), h)

RECURSIVE HostsTerminate(_, _)
HostsTerminate(x, S) ==
    IF S = {} THEN x
    ELSE LET h == CHOOSE k \in S : TRUE
         IN  HostsTerminate(Host_terminate([x EXCEPT !.requested[h] = @ + 1], h),
                            S \ {h})

\* A Network.terminate that does not pass the request on to its Hosts.
Network_terminate_no_cascade(x) ==
    IF x.pexe["N"] # "functioning" THEN x
    ELSE xact_exit_if_empty(start_termination(x, "N"), "N")

\* Network.terminate
Network_terminate(x) ==
    IF x.pexe["N"] # "functioning" THEN x
    ELSE xact_exit_if_empty(HostsTerminate(start_termination(x, "N"), x.subs["N"]),
                            "N")

\* xact_void(final) of Network, Host and Partition: the same two lines.
Network_xact_void(x) ==
    IF x.pexe["N"] = "terminating" THEN finish_termination(x, "N") ELSE x
Host_xact_void(x, h) ==
    IF x.pexe[h] = "terminating" THEN finish_termination(x, h) ELSE x
Partition_xact_void(x, p) ==
    IF x.pexe[p] = "terminating" THEN finish_termination(x, p) ELSE x

\* The Network is running with its Hosts and their Partitions; the unit of
\* work under a Partition may or may not be in flight.
TermInit ==
    /\ http_hosts = [name \in {"a", "b"} |-> IF name = "a" THEN "H1" ELSE "H2"]
    /\ http_default_host = None
    /\ actuated = TRUE
    /\ h_names = HostNames
    /\ h_partitions = [h \in Hosts |-> h_configure(SetToSeq(_h_parts(h)))]
    /\ h_root = [h \in Hosts |-> DOMAIN h_partitions[h]]
    /\ invp = [handler |-> <<"net_accept">>, next |-> 1]
    /\ ctls = <<>>
    /\ events = <<>>
    /\ fault = None
    /\ ops = 0
    /\ produced = <<>>
    /\ wire = <<>>
    /\ h_canonical = [H1 |-> Some("a"), H2 |-> Some("b")]
    /\ \E inflight \in SUBSET Jobs :
         xacts = LET x == Actuated([NoXacts EXCEPT !.pexe["N"] = "functioning"])
                 IN  [x EXCEPT !.pexe = [c \in Contexts |->
                                           IF c \in inflight THEN "functioning"
                                           ELSE x.pexe[c]],
                               !.subs = [c \in Contexts |->
                                           x.subs[c] \cup
                                           {j \in inflight : job_part[j] = c}]]

Terminated(x) ==
    /\ ops < MaxOps
    /\ ops' = ops + 1
    /\ xacts' = x
    /\ UNCHANGED <<http_hosts, http_default_host, actuated, h_names, h_partitions,
                   h_root, h_canonical, invp, ctls, events, fault, produced, wire>>

T_Network_terminate == Terminated(Network_terminate(xacts))

T_Host_terminate(h) ==
    /\ xacts.pexe[h] # "created"
    /\ Terminated(Host_terminate(xacts, h))

T_Partition_terminate(p) ==
    /\ xacts.pexe[p] # "created"
    /\ Terminated(Partition_terminate(xacts, p))

\* A unit of work ends, on its own or because it was asked to.
JobExit(j) ==
    /\ xacts.pexe[j] \in {"functioning", "terminating"}
    /\ xacts' = finish_termination(xacts, j)
    /\ UNCHANGED <<http_hosts, http_default_host, actuated, h_names, h_partitions,
                   h_root, h_canonical, invp, ctls, events, fault, ops, produced,
                   wire>>

\* The kernel delivers the exit of d to its parent.
DeliverExit(d) ==
    /\ d \in xacts.exits
    /\ LET parent == Parent(d)
           x1 == [xacts EXCEPT !.exits = @ \ {d}, !.subs[parent] = @ \ {d}]
       IN  xacts' = IF d \in xacts.subs[parent] /\ x1.subs[parent] = {}
                    THEN IF parent = "N" THEN Network_xact_void(x1)
                         ELSE IF parent \in Hosts THEN Host_xact_void(x1, parent)
                         ELSE Partition_xact_void(x1, parent)
                    ELSE x1
    /\ UNCHANGED <<http_hosts, http_default_host, actuated, h_names, h_partitions,
                   h_root, h_canonical, invp, ctls, events, fault, ops, produced,
                   wire>>

TermNext ==
    \/ T_Network_terminate
    \/ \E h \in Hosts : T_Host_terminate(h)
    \/ \E p \in Instances : T_Partition_terminate(p)
    \/ \E j \in Jobs : JobExit(j)
    \/ \E d \in Contexts : DeliverExit(d)

SpecTerm == TermInit /\ [][TermNext]_vars

(***************************************************************************)
(* Reading the event log.                                                  *)
(***************************************************************************)
EventsOf(i, op) == SelectSeq(events, LAMBDA e : e.op = op /\ e.ctl = i)
Positions(i, op) == {k \in 1..Len(events) : events[k].op = op /\ events[k].ctl = i}
HasHeader(headers, key, value) ==
    \E k \in 1..Len(headers) : headers[k] = <<key, value>>
HeaderCount(headers, key) ==
    Cardinality({k \in 1..Len(headers) : headers[k][1] = key})

(***************************************************************************)
(* C1.  A second set_response on a Controller fails and never replaces the *)
(* status, description and length chosen by the first call: the response   *)
(* a Controller holds is always the one its first set_response call set.   *)
(***************************************************************************)
C1_SecondSetResponseNeverReplaces ==
    \A i \in 1..Len(ctls) :
        LET calls == EventsOf(i, "set_response")
        IN  Len(calls) >= 1 =>
              Val(ctls[i]._response) =
                  <<calls[1].code, calls[1].descr, calls[1].length>>

(***************************************************************************)
(* C2.  Responses reach the wire in request order whatever the order in    *)
(* which their bodies are produced: when anything of the response on       *)
(* channel j is on the wire, the response of every earlier channel i < j   *)
(* has been emitted completely before it.                                  *)
(***************************************************************************)
C2_WireInRequestOrder ==
    \A q \in 1..Len(wire) :
        \A i \in 1..(wire[q].chan - 1) :
            \E p \in 1..(q - 1) : wire[p] = [chan |-> i, part |-> "end"]

\* The second response's body was produced before the first one's, and the
\* second response is on the wire.
C2_Witness ==
    /\ Len(produced) >= 2
    /\ produced[1] = 2
    /\ produced[2] = 1
    /\ \E q \in 1..Len(wire) : wire[q] = [chan |-> 2, part |-> "chunk"]

(***************************************************************************)
(* C3.  One Controller per request descriptor, routed in arrival order:    *)
(* the k-th h_route call of the connection receives the Controller built   *)
(* from the k-th descriptor delivered, with that descriptor's output hook, *)
(* input hook, channel id and request, and no descriptor is skipped or     *)
(* routed twice.                                                           *)
(***************************************************************************)
IsEnter(e) == e.op \in {"net_accept", "h_accept"}
IsRoute(e) == e.op = "h_route"

RECURSIVE Flatten(_)
Flatten(enters) ==
    IF enters = <<>> THEN <<>> ELSE Head(enters).batch \o Flatten(Tail(enters))

\* Every descriptor the connection has delivered to a batch handler.
Descriptors == Flatten(SelectSeq(events, IsEnter))
Routes == SelectSeq(events, IsRoute)

BuiltFrom(c, pair) ==
    /\ c._connect_output = pair[1]
    /\ c._request_channel_id = pair[2][1]
    /\ c.request = Structures(pair[2][2])
    /\ c._connect_input = pair[2][3]

C3_EveryDescriptorRoutedInOrder ==
    /\ Len(Routes) = Len(Descriptors)
    /\ Len(ctls) = Len(Descriptors)
    /\ \A k \in 1..Len(Routes) :
         /\ Routes[k].ctl = k
         /\ BuiltFrom(ctls[k], Descriptors[k])

(***************************************************************************)
(* C4.  net_select_host returns the Host registered under the hostname,    *)
(* and the Host registered under the default name for every other          *)
(* hostname or none; a missing default is a configuration error found at   *)
(* configuration time, so that once the Network is actuated no selection   *)
(* fails while a request is being handled.                                 *)
(***************************************************************************)
Owner(name) == CHOOSE h \in Hosts : name \in h_names[h]
IsRegistered(name) == ~IsNone(name) /\ \E h \in Hosts : Val(name) \in h_names[h]

IsSelect(e) == e.op = "net_select_host"
Selections == SelectSeq(events, IsSelect)
Expected(name) ==
    IF IsRegistered(name) THEN Owner(Val(name)) ELSE Owner(Val(http_default_host))

C4_SelectionNeverFailsAtRequestTime ==
    /\ IsNone(fault)
    /\ Len(Selections) >= 1 => Routes[1].host = Expected(Selections[1].name)

(***************************************************************************)
(* C5.  Every request of the batch given to net_accept is routed to one    *)
(* Host, the one selected from the first request's Host header, whatever   *)
(* Host header the later requests carry; and net_select_host is called     *)
(* once per net_accept call.                                               *)
(***************************************************************************)
CallsOf(op) == Cardinality({k \in 1..Len(events) : events[k].op = op})
InBatch(k, B) == \E i \in 1..Len(B) : ctls[Routes[k].ctl]._connect_output = B[i][1]

C5_BatchRoutedToFirstHost ==
    /\ CallsOf("net_select_host") = CallsOf("net_accept")
    /\ \A p \in 1..Len(events) :
         events[p].op = "net_accept" =>
           LET B == events[p].batch
               first == Structures(B[1][2][2]).host
           IN  /\ \A k \in 1..Len(Routes) :
                    InBatch(k, B) => Routes[k].host = Expected(first)
               /\ IsNone(fault) =>
                    \A i \in 1..Len(B) :
                        \E k \in 1..Len(Routes) :
                            ctls[Routes[k].ctl]._connect_output = B[i][1]

\* A batch whose first request names host a and whose second names host b
\* has been routed, both requests to the Host of a.
C5_Witness ==
    \E p \in 1..Len(events) :
        /\ events[p].op = "net_accept"
        /\ Len(events[p].batch) = 2
        /\ Structures(events[p].batch[1][2][2]).host = Some("a")
        /\ Structures(events[p].batch[2][2][2]).host = Some("b")
        /\ Len(Routes) = 2
        /\ Routes[2].host = "H1"

(***************************************************************************)
(* C6.  A request whose path begins with a prefix mounted on the Host it   *)
(* is routed by goes to a Partition: part_select is called exactly once,   *)
(* on the Partition of that Host mounted at the longest prefix the path    *)
(* begins with, and neither the fallback nor the OPTIONS handler runs.     *)
(***************************************************************************)
MountedOn(h) == {part_path[p] : p \in _h_parts(h)}
Matching(h, path) == {P \in MountedOn(h) : IsPrefix(P, path)}

C6_LongestMountedPrefixRoutes ==
    \A k \in 1..Len(Routes) :
        LET h == Routes[k].host
            i == Routes[k].ctl
            M == Matching(h, ctls[i].request.pathstring)
            sel == EventsOf(i, "part_select")
        IN  M # {} =>
              /\ Len(sel) = 1
              /\ part_host[sel[1].part] = h
              /\ part_path[sel[1].part] \in M
              /\ \A Q \in M : Len(Q) <= Len(part_path[sel[1].part])
              /\ EventsOf(i, "h_fallback") = <<>>
              /\ EventsOf(i, "h_options_request") = <<>>

\* /x/y routed on the Host that mounts /x and /x/y went to the Partition at
\* /x/y.
C6_Witness ==
    \E k \in 1..Len(Routes) :
        /\ Routes[k].host = "H2"
        /\ ctls[Routes[k].ctl].request.pathstring = PXY
        /\ Matching("H2", PXY) = {PX, PXY}
        /\ EventsOf(Routes[k].ctl, "part_select")[1].part = "P3"

(***************************************************************************)
(* C7.  OPTIONS * with no mounted prefix matching is answered by the Host: *)
(* one response 204 NO CONTENT whose Allow header lists the permitted      *)
(* methods, each once, separated by commas; the request body is accepted   *)
(* with no channel, no response body is connected, and the fallback (404)  *)
(* does not run.                                                           *)
(***************************************************************************)
Listed(value) == {value[j] : j \in {n \in 1..Len(value) : n % 2 = 1}}
Separators(value) == {value[j] : j \in {n \in 1..Len(value) : n % 2 = 0}}
HeaderValues(headers, key) ==
    {headers[k][2] : k \in {n \in 1..Len(headers) : headers[n][1] = key}}

IsOptionsStar(k) ==
    /\ Matching(Routes[k].host, ctls[Routes[k].ctl].request.pathstring) = {}
    /\ ctls[Routes[k].ctl].request.pathstring = <<"*">>
    /\ ctls[Routes[k].ctl].request.method = "OPTIONS"

C7_OptionsStarAnswered ==
    \A k \in 1..Len(Routes) :
        IsOptionsStar(k) =>
          LET i == Routes[k].ctl
              out == EventsOf(i, "connect_output")
              inp == EventsOf(i, "connect_input")
          IN  /\ Len(out) = 1
              /\ ~IsNone(out[1].response)
              /\ Val(out[1].response).code = "204"
              /\ Val(out[1].response).descr = "NO CONTENT"
              /\ IsNone(out[1].channel)
              /\ EventsOf(i, "dispatch") = <<>>
              /\ Len(inp) = 1
              /\ IsNone(inp[1].channel)
              /\ HeaderCount(Val(out[1].response).headers, "Allow") = 1
              /\ \A v \in HeaderValues(Val(out[1].response).headers, "Allow") :
                   /\ Listed(v) = h_allowed_methods
                   /\ Len(v) = 2 * Cardinality(h_allowed_methods) - 1
                   /\ Separators(v) = {","}
              /\ EventsOf(i, "h_fallback") = <<>>

\* An OPTIONS * request has been answered with the seven default methods.
C7_Witness ==
    \E k \in 1..Len(Routes) :
        /\ IsOptionsStar(k)
        /\ \E v \in HeaderValues(
                      Val(EventsOf(Routes[k].ctl, "connect_output")[1].response).headers,
                      "Allow") :
             /\ Listed(v) = {"GET", "HEAD", "POST", "PUT", "PATCH", "DELETE", "OPTIONS"}
             /\ Len(v) = 13

(***************************************************************************)
(* C8.  A request that matches no mounted prefix and is not OPTIONS * goes *)
(* to the fallback: its body is accepted with no channel first, then a 404 *)
(* response is set and connected whose body is the XML error document      *)
(* (stylesheet /sys/error.xsl, frame code 404) and whose Content-Length is *)
(* the byte length of that document.                                       *)
(***************************************************************************)
NotFoundDocument(message) ==
    "<?xml version=\"1.0\" encoding=\"ascii\"?>"
    \o "<?xml-stylesheet type=\"text/xsl\" href=\"/sys/error.xsl\"?>"
    \o "<error xmlns=\"http://if.fault.io/xml/failure\" domain=\"/internet/http\">"
    \o "<frame code=\"404\" message=\"" \o message \o "\"/>"
    \o "</error>"

IsUnmatched(k) ==
    /\ Matching(Routes[k].host, ctls[Routes[k].ctl].request.pathstring) = {}
    /\ ~IsOptionsStar(k)

C8_FallbackAcceptsThenEmits404 ==
    \A k \in 1..Len(Routes) :
        IsUnmatched(k) =>
          LET i == Routes[k].ctl
              out == EventsOf(i, "connect_output")
              inp == EventsOf(i, "connect_input")
              set == EventsOf(i, "set_response")
          IN  /\ Len(EventsOf(i, "h_fallback")) = 1
              /\ Len(inp) = 1 /\ Len(set) = 1 /\ Len(out) = 1
              /\ IsNone(inp[1].channel)
              /\ \A a \in Positions(i, "connect_input") :
                   /\ \A f \in Positions(i, "h_fallback") : f < a
                   /\ \A b \in Positions(i, "set_response") : a < b
                   /\ \A c \in Positions(i, "connect_output") : a < c
              /\ \A b \in Positions(i, "set_response") :
                   \A c \in Positions(i, "connect_output") : b < c
              /\ set[1].code = "404"
              /\ ~IsNone(out[1].response)
              /\ LET r == Val(out[1].response)
                     doc == NotFoundDocument(r.descr)
                 IN  /\ r.code = "404"
                     /\ out[1].channel = Some([relay |-> ctls[i]._request_channel_id,
                                               chunks |-> <<doc>>])
                     /\ r.length = Some(Len(doc))
                     /\ HeaderValues(r.headers, "Content-Length")
                          = {<<IntToStr(Len(doc))>>}
                     /\ HeaderCount(r.headers, "Content-Length") = 1

\* /n on the Host that mounts only /x and /x/y was answered 404 with the
\* 211-byte document.
C8_Witness ==
    \E k \in 1..Len(Routes) :
        /\ IsUnmatched(k)
        /\ ctls[Routes[k].ctl].request.pathstring = <<"/", "n">>
        /\ LET out == EventsOf(Routes[k].ctl, "connect_output")
           IN  /\ Len(out) = 1
               /\ HasHeader(Val(out[1].response).headers, "Content-Length", <<"211">>)
               /\ Val(out[1].channel).chunks = <<NotFoundDocument("NOT FOUND")>>

(***************************************************************************)
(* C9.  As claimed: every response handed to the output hook carries       *)
(* Transfer-Encoding: chunked when its length is None and Content-Length   *)
(* equal to n when its length is n, whether or not set_response was given  *)
(* a content type.                                                         *)
(***************************************************************************)
Chunked(r) == HasHeader(r.headers, "Transfer-Encoding", <<"chunked">>)
Sized(r, n) == HasHeader(r.headers, "Content-Length", <<IntToStr(n)>>)

C9_FramingHeaderAlways ==
    \A p \in 1..Len(events) :
        (IsOutput(events[p]) /\ ~IsNone(events[p].response)) =>
          LET r == Val(events[p].response)
          IN  IF IsNone(r.length) THEN Chunked(r) ELSE Sized(r, Val(r.length))

(***************************************************************************)
(* What the code does instead of C9 (a supporting fact, not the claim).     *)
(* The framing header is added only by a set_response call                 *)
(* that is given a content type: when the call that chose the published    *)
(* response passed one, the response carries that Content-Type and         *)
(* Transfer-Encoding: chunked (length None) or Content-Length n (length    *)
(* n); when no set_response call on the Controller passed one, the         *)
(* published response carries neither framing header.                      *)
(***************************************************************************)
SetsBefore(i, p) ==
    {q \in 1..(p - 1) : events[q].op = "set_response" /\ events[q].ctl = i}
LastSetBefore(i, p) ==
    events[CHOOSE q \in SetsBefore(i, p) : \A q2 \in SetsBefore(i, p) : q2 <= q]

C9_FramingHeaderWithContentType ==
    \A p \in 1..Len(events) :
        (IsOutput(events[p]) /\ ~IsNone(events[p].response)) =>
          LET r == Val(events[p].response)
              i == events[p].ctl
              chosen == LastSetBefore(i, p)
          IN  /\ r.length = chosen.length
              /\ ~IsNone(chosen.cotype) =>
                   /\ HasHeader(r.headers, "Content-Type", <<Val(chosen.cotype)>>)
                   /\ IF IsNone(r.length) THEN Chunked(r)
                      ELSE Sized(r, Val(r.length))
              /\ (\A q \in SetsBefore(i, p) : IsNone(events[q].cotype)) =>
                   /\ HeaderCount(r.headers, "Transfer-Encoding") = 0
                   /\ HeaderCount(r.headers, "Content-Length") = 0

\* A response of length 5 with a content type was published with
\* Content-Length: 5.
C9_Witness ==
    \E p \in 1..Len(events) :
        /\ IsOutput(events[p])
        /\ ~IsNone(events[p].response)
        /\ ~IsNone(LastSetBefore(events[p].ctl, p).cotype)
        /\ Val(events[p].response).length = Some(5)
        /\ HasHeader(Val(events[p].response).headers, "Content-Length", <<"5">>)

(***************************************************************************)
(* C10.  connect on the Controller of a final request appends Connection:  *)
(* close before it calls the output hook, so the response the hook gets    *)
(* ends with that header, and calls i_close right after the hook; connect  *)
(* on any other Controller adds no Connection header and never calls       *)
(* i_close.                                                                *)
(***************************************************************************)
C10_CloseOnFinalOnly ==
    /\ \A p \in 1..Len(events) :
         (IsOutput(events[p]) /\ ctls[events[p].ctl].request.final) =>
           /\ ~IsNone(events[p].response) =>
                LET hs == Val(events[p].response).headers
                IN  Len(hs) >= 1 /\ hs[Len(hs)] = <<"Connection", <<"close">>>>
           /\ p < Len(events)
           /\ events[p + 1] = [op |-> "i_close", ctl |-> events[p].ctl]
    /\ \A q \in 1..Len(events) :
         IsClose(events[q]) =>
           /\ q > 1
           /\ IsOutput(events[q - 1])
           /\ events[q - 1].ctl = events[q].ctl
           /\ ctls[events[q].ctl].request.final
    /\ \A i \in 1..Len(ctls) :
         HeaderCount(ctls[i].response_headers, "Connection") =
             IF ctls[i].request.final THEN Len(EventsOf(i, "connect_output")) ELSE 0

\* connect has published the response of a final request, Connection: close
\* included, and i_close followed.
C10_Witness ==
    \E p \in 1..Len(events) :
        /\ IsOutput(events[p])
        /\ ctls[events[p].ctl].request.final
        /\ ~IsNone(events[p].response)
        /\ HasHeader(Val(events[p].response).headers, "Connection", <<"close">>)
        /\ p < Len(events)
        /\ IsClose(events[p + 1])

(***************************************************************************)
(* C11.  connect on a Controller whose response was never set is a fault:  *)
(* the output hook is never called with an unset (None) response.          *)
(***************************************************************************)
C11_ConnectRequiresResponse ==
    \A p \in 1..Len(events) :
        IsOutput(events[p]) => ~IsNone(events[p].response)

(***************************************************************************)
(* C12.  The inbound-body hook of a request is called at most once over    *)
(* the life of its Controller, whatever the handler calls.                 *)
(***************************************************************************)
C12_InputConnectedAtMostOnce ==
    \A i \in 1..Len(ctls) : Len(EventsOf(i, "connect_input")) <= 1

(***************************************************************************)
(* C17.  http_continue on a Controller whose response has been set raises  *)
(* and changes nothing: the chosen response and the header list stay as    *)
(* they were and no hook is called, so nothing is published by it.         *)
(***************************************************************************)
C17_ContinueAfterResponseRaises ==
    [][(/\ Len(events') > Len(events)
        /\ events'[Len(events) + 1].op = "http_continue"
        /\ ~IsNone(ctls[1]._response))
       => (/\ ctls' = ctls
           /\ events' = events \o
                <<[op |-> "http_continue", ctl |-> ctls[1].id],
                  [op |-> "raise", ctl |-> ctls[1].id, method |-> "http_continue",
                   exc |-> "Exception"]>>)]_vars

\* http_continue was called after a set_response and raised.
C17_Witness ==
    \E p \in 2..Len(events) :
        /\ events[p].op = "http_continue"
        /\ SetsBefore(events[p].ctl, p) # {}
        /\ p < Len(events)
        /\ events[p + 1].op = "raise"

(***************************************************************************)
(* C18.  As claimed: the output hook of a request is called at most once,  *)
(* whatever the handler calls on the Controller.                           *)
(***************************************************************************)
C18_OutputRegisteredAtMostOnce ==
    \A i \in 1..Len(ctls) : Len(EventsOf(i, "connect_output")) <= 1

\* The part of C18 about the paths the Host handles itself: every routed
\* Controller has had its output hook called exactly once.
C18_HostPathsRegisterOnce ==
    \A k \in 1..Len(Routes) :
        Len(EventsOf(Routes[k].ctl, "connect_output")) = 1

(***************************************************************************)
(* C19.  A request routed to a Partition with the base part_select has its *)
(* body accepted with no channel (discarded) and is then answered 500      *)
(* MISCONFIGURED with the XML error document as body: the Controller is    *)
(* accepted and connected, each exactly once, before part_select returns.  *)
(***************************************************************************)
MisconfiguredDocument ==
    "<?xml version=\"1.0\" encoding=\"ascii\"?>"
    \o "<?xml-stylesheet type=\"text/xsl\" href=\"/sys/error.xsl\"?>"
    \o "<error xmlns=\"http://if.fault.io/xml/failure\" domain=\"/internet/http\">"
    \o "<frame code=\"500\" message=\"MISCONFIGURED\"/>"
    \o "</error>"

IsSelected(e) == e.op = "part_select"

C19_UnresolvedAnswered500 ==
    \A p \in 1..Len(events) :
        IsSelected(events[p]) =>
          LET i == events[p].ctl
              out == EventsOf(i, "connect_output")
              inp == EventsOf(i, "connect_input")
              set == EventsOf(i, "set_response")
          IN  /\ Len(inp) = 1 /\ Len(set) = 1 /\ Len(out) = 1
              /\ IsNone(inp[1].channel)
              /\ \A a \in Positions(i, "connect_input") :
                   /\ p < a
                   /\ \A b \in Positions(i, "set_response") : a < b
                   /\ \A c \in Positions(i, "connect_output") : a < c
              /\ set[1].code = "500" /\ set[1].descr = "MISCONFIGURED"
              /\ ~IsNone(out[1].response)
              /\ LET r == Val(out[1].response)
                 IN  /\ r.code = "500"
                     /\ r.descr = "MISCONFIGURED"
                     /\ r.length = Some(Len(MisconfiguredDocument))
                     /\ HasHeader(r.headers, "Content-Type", <<"text/xml">>)
                     /\ out[1].channel = Some([relay |-> ctls[i]._request_channel_id,
                                               chunks |-> <<MisconfiguredDocument>>])

\* /x/y was routed to the Partition mounted there and answered 500
\* MISCONFIGURED with the document as the body.
C19_Witness ==
    \E p \in 1..Len(events) :
        /\ IsSelected(events[p])
        /\ LET out == EventsOf(events[p].ctl, "connect_output")
               inp == EventsOf(events[p].ctl, "connect_input")
           IN  /\ Len(out) = 1 /\ Len(inp) = 1
               /\ Val(out[1].response).descr = "MISCONFIGURED"
               /\ Val(out[1].channel).chunks = <<MisconfiguredDocument>>

(***************************************************************************)
(* C20.  As claimed, the part about the call itself:                       *)
(* http_read_input_into_buffer does not fail before it has connected the   *)
(* request body; every call is followed by the Controller's inbound-body   *)
(* hook being called, with no exception raised in between.                 *)
(***************************************************************************)
C20_BufferedReadConnectsBody ==
    \A p \in 1..Len(events) :
        events[p].op = "http_read_input_into_buffer" =>
          \E q \in (p + 1)..Len(events) :
              /\ events[q].op = "connect_input"
              /\ events[q].ctl = events[p].ctl
              /\ \A r \in (p + 1)..(q - 1) : events[r].op # "raise"

(***************************************************************************)
(* C16.  Every hostname in the Network's hostname-to-Host mapping is in    *)
(* the name set of the Host it maps to.                                    *)
(***************************************************************************)
C16_MappedNamesBelongToHost ==
    \A name \in DOMAIN http_hosts : name \in h_names[http_hosts[name]]

(***************************************************************************)
(* C15.  h_configure fails when two of the given partitions have the same  *)
(* mount path: no such call returns normally, and no Partition is          *)
(* dispatched that the prefix index does not lead to.                      *)
(***************************************************************************)
HasDuplicatePaths(partitions) ==
    \E i, j \in 1..Len(partitions) :
        i # j /\ part_path[partitions[i]] = part_path[partitions[j]]

C15_DuplicateMountPathRejected ==
    /\ \A k \in 1..Len(events) :
         (events[k].op = "h_configure" /\ HasDuplicatePaths(events[k].partitions))
            => events[k].raised
    /\ \A h \in Hosts : \A p \in xacts.subs[h] :
         /\ part_path[p] \in DOMAIN h_partitions[h]
         /\ h_partitions[h][part_path[p]] = p

(***************************************************************************)
(* C13.  A container that has started termination has asked every child    *)
(* still in its subtransactions to terminate; it has finished only when    *)
(* no child is left and every child is terminated; and it never stays      *)
(* terminating with nothing left to wait for, so a container without       *)
(* active children finishes in the terminate call itself and the others    *)
(* finish when the exit of the last child is delivered.                    *)
(***************************************************************************)
C13_TerminationWaitsForChildren ==
    \A c \in Containers :
        /\ xacts.pexe[c] \in {"terminating", "terminated"} =>
             \A d \in xacts.subs[c] : xacts.pexe[d] # "functioning"
        /\ xacts.pexe[c] = "terminated" =>
             /\ xacts.subs[c] = {}
             /\ \A d \in Contexts \ {"N"} :
                  Parent(d) = c => xacts.pexe[d] \in {"created", "terminated"}
        /\ xacts.pexe[c] = "terminating" => xacts.subs[c] # {}
        /\ xacts.finished[c] <= xacts.started[c]

\* The Network was terminated while a unit of work was in flight under a
\* Partition, and has finished after every Host, Partition and the unit of
\* work; P1, which had no children, finished when it was asked.
C13_Witness ==
    /\ xacts.pexe["N"] = "terminated"
    /\ xacts.finished["J1"] = 1
    /\ \A c \in {"N"} \cup Hosts \cup Partitions :
         xacts.started[c] = 1 /\ xacts.finished[c] = 1

(***************************************************************************)
(* C14.  As claimed: a second terminate on a Network, Host or Partition    *)
(* does nothing; no component starts termination twice, finishes it twice, *)
(* or has its children asked to terminate twice.                           *)
(***************************************************************************)
C14_ReterminateIsNoOp ==
    \A c \in Contexts :
        /\ xacts.started[c] <= 1
        /\ xacts.finished[c] <= 1
        /\ xacts.requested[c] <= 1

(***************************************************************************)
(* C21.  As claimed: a response handed to the output hook never carries    *)
(* both Content-Length and Transfer-Encoding: chunked, and never more than *)
(* one Content-Length or more than one Content-Type header, whatever the   *)
(* handler has called (its own add_header calls add neither).              *)
(***************************************************************************)
FramingConsistent(headers) ==
    /\ ~(/\ HeaderCount(headers, "Content-Length") >= 1
         /\ HasHeader(headers, "Transfer-Encoding", <<"chunked">>))
    /\ HeaderCount(headers, "Content-Length") <= 1
    /\ HeaderCount(headers, "Content-Type") <= 1

C21_NoConflictingFraming ==
    \A p \in 1..Len(events) :
        (IsOutput(events[p]) /\ ~IsNone(events[p].response)) =>
            FramingConsistent(Val(events[p].response).headers)

\* What remains of C21 when set_response has run once on the Controller
\* (directly or inside an emitter): the published headers are consistent.
C21_ConsistentAfterOneSetResponse ==
    \A p \in 1..Len(events) :
        (/\ IsOutput(events[p])
         /\ ~IsNone(events[p].response)
         /\ Cardinality(SetsBefore(events[p].ctl, p)) <= 1) =>
            FramingConsistent(Val(events[p].response).headers)

(***************************************************************************)
(* C22.  Once net_accept has selected a Host for the first batch, it       *)
(* installs that Host's h_accept as the batch handler before it routes the *)
(* first Controller; every later batch goes to h_accept of that Host and   *)
(* is routed by it, whatever Host headers its requests carry, and          *)
(* net_accept and net_select_host are not called again.                    *)
(***************************************************************************)
IsUpdate(e) == e.op = "i_update"
Updates == SelectSeq(events, IsUpdate)

C22_LaterBatchesKeepTheHost ==
    /\ CallsOf("net_accept") <= 1
    /\ CallsOf("net_select_host") <= 1
    /\ Len(Updates) <= 1
    /\ (CallsOf("net_accept") = 1 /\ IsNone(fault)) =>
         /\ Len(Updates) = 1
         /\ Updates[1].host = Expected(Selections[1].name)
         /\ invp.handler = <<"h_accept", Updates[1].host>>
    /\ \A u \in 1..Len(events) :
         IsUpdate(events[u]) =>
           /\ \A k \in 1..Len(events) :
                (IsRoute(events[k]) \/ events[k].op = "h_accept") => u < k
           /\ \A k \in 1..Len(events) :
                IsRoute(events[k]) => events[k].host = events[u].host
    /\ Routes # <<>> => Len(Updates) = 1

\* A second batch, whose request names the other Host, was handed to
\* h_accept of the Host the first batch selected and routed by it.
C22_Witness ==
    /\ Len(Updates) = 1
    /\ \E k \in 1..Len(events) :
         /\ events[k].op = "h_accept"
         /\ \E i \in 1..Len(ctls) :
              /\ ctls[i]._connect_output = events[k].batch[1][1]
              /\ IsRegistered(ctls[i].request.host)
              /\ Owner(Val(ctls[i].request.host)) # Updates[1].host
              /\ \E r \in 1..Len(Routes) :
                   Routes[r].ctl = i /\ Routes[r].host = Updates[1].host
====
